---- MODULE Spec2Model ----
(***************************************************************************)
(* final-rpc (src/index.js): a promise-aware RPC and publish/subscribe      *)
(* layer over WebSocket connections.                                        *)
(*                                                                          *)
(* One Client object (class Client, a SerialEventEmitter) talks to one      *)
(* Server object.  The Server also accepts further raw connections, which   *)
(* take part in subscribe / unsubscribe / publish.  The two sides are       *)
(* separate event loops: every action below is one callback of one of       *)
(* them, run to completion.                                                 *)
(***************************************************************************)
EXTENDS Integers, Sequences, FiniteSets, TLC

\* ------------------------------------------------------------------ bounds
NumConns   == 2    \* connections the server accepts; the lowest is the Client's
MaxInvoke  == 2    \* calls of Client.invoke
MaxPublish == 1    \* calls of Server.publish
MaxSubOps  == 3    \* calls of Server.subscribe / Server.unsubscribe
MaxUserEmit == 1   \* emits made by a user listener from inside a delivery
MaxUnsolicited == 1 \* response frames the peer sends that answer no request
MaxSocketErrors == 1 \* 'error' events raised by sockets that have opened, per side

Conns       == 1..NumConns
ClientConn  == CHOOSE c \in Conns : \A d \in Conns : c <= d
Channels    == {"news", "misc"}
MethodNames == {"add", "foo"}   \* what a caller may name
Handlers    == {"add"}          \* what the application registers

\* ------------------------------------------------------------ JS values
\* A JavaScript value: `type` is what typeof yields, `class` tells the
\* objects apart, `val` is the content.
Num(n)        == [class |-> "",        type |-> "number",    val |-> n]
Str(s)        == [class |-> "",        type |-> "string",    val |-> s]
JNull         == [class |-> "Null",    type |-> "object",    val |-> "null"]
JUndefined    == [class |-> "",        type |-> "undefined", val |-> "undefined"]
ErrorOf(m)    == [class |-> "Error",   type |-> "object",    val |-> m]
PlainOf(m)    == [class |-> "Object",  type |-> "object",    val |-> m]
PromiseObj    == [class |-> "Promise", type |-> "object",    val |-> "promise"]

\* What a handler may return at once, throw, or settle a deferred result with.
ReturnValues == {Num(10), Num(20), JNull, JUndefined}
ThrowValues  == {Str("boom"), ErrorOf("bad")}
PublishArgs  == {<<Str("hi")>>, <<Num(10), JUndefined>>}
InvokeArgs   == {<<Num(10), Num(20)>>}

\* ---------------------------------------------------------------- codec
\* JSON.parse(JSON.stringify(v)) for one element of an array: undefined
\* becomes null; an Error instance or a Promise has no enumerable own
\* property and becomes {}.
JSONValue(v) ==
    IF v.type = "undefined" THEN JNull
    ELSE IF v.class \in {"Error", "Promise"} THEN PlainOf("{}")
    ELSE v

\* The text of a frame: the array of the JSON forms of its elements.
encodeMsg(msg) ==
    [json |-> "array", items |-> [i \in DOMAIN msg |-> JSONValue(msg[i])]]

\* A text that does not parse decodes to null; any other text to its value.
NotAFrame == <<>>
decodeMsg(data) ==
    IF data.json = "array" THEN data.items ELSE NotAFrame
IsArray(data) == data.json = "array"

\* Server._onMessage's reject(): an Error instance is replaced by a plain
\* record of its name, stack and message.
NormalizeError(error) ==
    IF error.class = "Error" THEN PlainOf(error.val) ELSE error

\* --------------------------------------------------------------- state
VARIABLES
    client,              \* the Client object (a record of its fields)
    wire,                \* every text the Client passed to socket.send
    srvRead,             \* how many of them the Server has received
    inbox,               \* texts in flight from the Server to the Client
    methods,             \* Server.methods: the registered method names
    clients,             \* server.clients: the live connections
    closedConns,         \* connections whose close the Server has observed
    channels,            \* Server.channels: channel -> set of connections
    subscribedChannels,  \* Server.subscribedChannels: connection -> channels
    pendingCalls,        \* deferred handler results not settled yet (cbID)
    sent,                \* per connection, every frame client.send accepted
    handled,             \* per cbID, what the handler call did (history)
    subCalls,            \* last subscribe/unsubscribe call per pair (history)
    published,           \* the publish calls made so far (history)
    nSubOps,             \* number of subscribe/unsubscribe calls so far
    calledIn,            \* readyState at each invoke call (history)
    broken,              \* connections whose socket makes send throw
    clienterror,         \* per connection, the 'clienterror' signals emitted
    apiLog               \* subscribe calls counted, publish calls (history)

vars == <<client, wire, srvRead, inbox, methods, clients, closedConns,
          channels, subscribedChannels, pendingCalls, sent, handled,
          subCalls, published, nSubOps, calledIn, broken, clienterror,
          apiLog>>

serverVars == <<methods, clients, closedConns, channels, subscribedChannels,
                pendingCalls, sent, handled, subCalls, published, nSubOps,
                broken, clienterror, apiLog>>

\* ------------------------------------------------- promises of invoke
Pending        == [state |-> "pending",   value |-> JUndefined]
Fulfilled(v)   == [state |-> "fulfilled", value |-> v]
Rejected(v)    == [state |-> "rejected",  value |-> v]

ConnectionClosed == ErrorOf("connection closed")
ConnectError     == ErrorOf("connect failed")
NotOpenError     == ErrorOf("WebSocket is not open")
SendError        == ErrorOf("not opened")
SocketFault      == ErrorOf("socket error")

\* The promise of request cbID is element cbID + 1 of client.promises.
PromiseOf(c, cbID) == c.promises[cbID + 1]
Settle(c, cbID, outcome) ==
    [c EXCEPT !.promises[cbID + 1] = IF @.state = "pending" THEN outcome ELSE @]

\* outstandingRequests is a Map: its keys in insertion order.
MapHas(keys, k)    == \E i \in DOMAIN keys : keys[i] = k
MapDelete(keys, k) == SelectSeq(keys, LAMBDA x : x # k)
MapSet(keys, k)    == IF MapHas(keys, k) THEN keys ELSE Append(keys, k)

\* ------------------------------------------- Client, after `new Client`
ClientInit(listener) ==
    [ readyState          |-> "connecting",
      counter             |-> 0,
      openPromise         |-> "pending",
      awaiting            |-> <<>>,     \* continuations awaiting openPromise
      microtasks          |-> <<>>,     \* continuations ready to run
      outstandingRequests |-> <<>>,
      promises            |-> <<>>,
      pubsub              |-> <<>>,     \* what client.pubsub emitted
      closePromise        |-> "none",   \* the promise of Client.close()
      QUEUE               |-> <<>>,
      HANDLING            |-> FALSE,
      immediates          |-> 0,        \* scheduled setImmediate callbacks
      userListener        |-> listener, \* what the application registered
      userEmits           |-> 0,
      busy                |-> 0,        \* async listeners not finished yet
      thrown              |-> FALSE,    \* an exception is propagating
      active              |-> 0,        \* deliveries on the call stack
      unsolicited         |-> 0,        \* history: unrequested frames received
      emitted             |-> <<>>,     \* history: every emit, in order
      delivered           |-> <<>>,     \* history: every delivery, in order
      nested              |-> FALSE,    \* history: a delivery began inside one
      overlapped          |-> FALSE ]   \* history: one began with busy > 0

\* A listener that trusts responses to arrive in request order: it settles
\* the oldest pending record whatever id the frame carries.
OnResponseInOrder(c, id, flag, result) ==
    IF c.outstandingRequests = <<>> THEN c
    ELSE LET k  == Head(c.outstandingRequests)
             c1 == [c EXCEPT !.outstandingRequests = Tail(@)]
         IN IF flag THEN Settle(c1, k, Fulfilled(result))
                    ELSE Settle(c1, k, Rejected(result))

\* A listener that reads its second argument as its name says, as an error
\* flag: it rejects when the argument is true.
OnResponseErrorFlag(c, id, flag, result) ==
    IF ~(id.type = "number" /\ MapHas(c.outstandingRequests, id.val)) THEN c
    ELSE LET c1 == [c EXCEPT !.outstandingRequests = MapDelete(@, id.val)]
         IN IF flag THEN Settle(c1, id.val, Rejected(result))
                    ELSE Settle(c1, id.val, Fulfilled(result))

\* A listener that, for an id without a record, settles the newest pending
\* record instead of returning.
OnResponseAnyPending(c, id, flag, result) ==
    LET keys == c.outstandingRequests
        k    == IF id.type = "number" /\ MapHas(keys, id.val) THEN id.val
                ELSE IF keys # <<>> THEN keys[Len(keys)] ELSE -1
    IN IF k < 0 THEN c
       ELSE LET c1 == [c EXCEPT !.outstandingRequests = MapDelete(@, k)]
            IN IF flag THEN Settle(c1, k, Fulfilled(result))
                       ELSE Settle(c1, k, Rejected(result))

\* --------------------------------------------------- the 'response' listener
\* (id, error, result): the second argument is true for a success frame.
OnResponse(c, id, flag, result) ==
    IF ~(id.type = "number" /\ MapHas(c.outstandingRequests, id.val)) THEN c
    ELSE LET c1 == [c EXCEPT !.outstandingRequests = MapDelete(@, id.val)]
         IN IF flag THEN Settle(c1, id.val, Fulfilled(result))
                    ELSE Settle(c1, id.val, Rejected(result))

\* onOpen / onError of the constructor: settle openPromise; the functions
\* awaiting it are queued as microtasks in the order they began to wait.
OnOpen(c) ==
    IF c.openPromise # "pending" THEN c
    ELSE [c EXCEPT !.openPromise = "resolved",
                   !.microtasks  = @ \o c.awaiting,
                   !.awaiting    = <<>>]

OnError(c) ==
    IF c.openPromise # "pending" THEN c
    ELSE [c EXCEPT !.openPromise = "rejected",
                   !.microtasks  = @ \o c.awaiting,
                   !.awaiting    = <<>>]

OnPublish(c, data) == [c EXCEPT !.pubsub = Append(@, data)]

\* The listener Client.close registered with once('close', resolve).
OnClose(c) ==
    IF c.closePromise = "listening" THEN [c EXCEPT !.closePromise = "resolved"]
    ELSE c

\* ------------------------------------------------- SerialEventEmitter
RECURSIVE emit(_, _)
RECURSIVE HANDLENEXT(_)
RECURSIVE superEmit(_, _)

\* A guard that forgets the HANDLING flag.
MayHandleUnguarded(c) == c.QUEUE # <<>>

\* A finally block that clears the flag and drains the queue at once instead
\* of leaving both to a setImmediate callback.
AfterListenersAtOnce(c) == HANDLENEXT([c EXCEPT !.HANDLING = FALSE])

\* A queue read from the wrong end: the newest signal is taken first.
ShiftNewest(q) == [args |-> q[Len(q)], rest |-> SubSeq(q, 1, Len(q) - 1)]

\* The guard of HANDLENEXT and the element it shifts off the queue.
MayHandle(c) == ~c.HANDLING /\ c.QUEUE # <<>>
Shift(q)     == [args |-> Head(q), rest |-> Tail(q)]

\* A HANDLENEXT without try/finally: when a listener throws, no callback is
\* scheduled.
AfterListenersNoFinally(c) ==
    IF c.thrown THEN c ELSE [c EXCEPT !.immediates = @ + 1]

\* What the finally block does once the listeners have returned or thrown.
AfterListeners(c) == [c EXCEPT !.immediates = @ + 1]

HANDLENEXT(c) ==
    IF ~MayHandle(c) THEN c
    ELSE LET s  == Shift(c.QUEUE)
             c1 == [c EXCEPT !.HANDLING   = TRUE,
                             !.QUEUE      = s.rest,
                             !.delivered  = Append(@, s.args),
                             !.nested     = @ \/ c.active > 0,
                             !.overlapped = @ \/ c.busy > 0,
                             !.active     = @ + 1]
             c2 == superEmit(c1, s.args)
         IN AfterListeners([c2 EXCEPT !.active = @ - 1])

emit(c, args) ==
    HANDLENEXT([c EXCEPT !.QUEUE = Append(@, args), !.emitted = Append(@, args)])

\* A listener the application registered with client.on: it may emit on the
\* client from inside the delivery, yield and finish in a later turn, or
\* throw.
UserListener(c, args) ==
    CASE c.userListener = "reemit" /\ args[1] # "user" /\ c.userEmits < MaxUserEmit
           -> emit([c EXCEPT !.userEmits = @ + 1], <<"user">>)
      [] c.userListener = "async"
           -> [c EXCEPT !.busy = @ + 1]
      [] c.userListener = "throws"
           -> [c EXCEPT !.thrown = TRUE]
      [] OTHER -> c

\* EventEmitter.emit: the listeners of the signal, in registration order.
\* The constructor's listeners come first, then the application's, then the
\* resolver Client.close registered with once('close'); a listener that
\* throws ends the call.  The constructor's 'error' listener is registered
\* only while openPromise is pending, and an 'error' without any listener
\* is thrown by EventEmitter.
superEmit(c, args) ==
    IF args[1] = "close"
    THEN LET c1 == UserListener(c, args)
         IN IF c1.thrown THEN c1 ELSE OnClose(c1)
    ELSE IF args[1] = "error" /\ c.openPromise # "pending" /\ c.userListener = "none"
    THEN [c EXCEPT !.thrown = TRUE]
    ELSE LET c1 == CASE args[1] = "open"     -> OnOpen(c)
                     [] args[1] = "error"    -> OnError(c)
                     [] args[1] = "response" -> OnResponse(c, args[2], args[3], args[4])
                     [] args[1] = "publish"  -> OnPublish(c, SubSeq(args, 2, Len(args)))
                     [] OTHER                -> c
         IN UserListener(c1, args)

\* A callback returns to the event loop; an exception that escaped it is
\* the runtime's to report, and the loop goes on.
Return(c) == [c EXCEPT !.thrown = FALSE]

\* ------------------------------------------------------- Client actions
\* The transport's 'open' on the socket made by Client.open: onOpen stores
\* the socket and emits 'open'.  The server side accepted the connection.
SocketOpen ==
    /\ client.readyState = "connecting"
    /\ client.microtasks = <<>>
    /\ ClientConn \in clients \cup closedConns
    /\ client' = Return(emit([client EXCEPT !.readyState = "open"], <<"open">>))
    /\ UNCHANGED <<wire, srvRead, inbox, serverVars, calledIn>>

\* The transport's 'error' before 'open': onError of Client.open emits 'error'.
SocketError ==
    /\ client.readyState = "connecting"
    /\ client.microtasks = <<>>
    /\ client' = Return(emit([client EXCEPT !.readyState = "failed"],
                             <<"error", ConnectError>>))
    /\ UNCHANGED <<wire, srvRead, inbox, serverVars, calledIn>>

\* An invoke whose id does not come from an advancing counter: every request
\* carries the first id.
ContinuationSameId(method, cbID, args) ==
    [op |-> "invoke", method |-> method, cbID |-> 0, args |-> args]

\* Client._onError: the socket's 'error' once the connection has opened.
ClientOnError(c, error) == emit(c, <<"error", error>>)

SocketErrors(log) ==
    Cardinality({i \in DOMAIN log : log[i][1] = "error" /\ log[i][2] = SocketFault})

SocketErrorAfterOpen ==
    /\ client.readyState \in {"open", "closing"}
    /\ client.microtasks = <<>>
    /\ SocketErrors(client.emitted) < MaxSocketErrors
    /\ client' = Return(ClientOnError(client, SocketFault))
    /\ UNCHANGED <<wire, srvRead, inbox, serverVars, calledIn>>

\* Client.invoke up to its await: take the next id, then wait for openPromise.
Continuation(method, cbID, args) ==
    [op |-> "invoke", method |-> method, cbID |-> cbID, args |-> args]

Invoke(method, args) ==
    /\ client.counter < MaxInvoke
    /\ LET k == Continuation(method, client.counter, args)
       IN client' = [client EXCEPT
              !.counter    = @ + 1,
              !.promises   = Append(@, Pending),
              !.awaiting   = IF client.openPromise = "pending"
                             THEN Append(@, k) ELSE @,
              !.microtasks = IF client.openPromise = "pending"
                             THEN @ ELSE Append(@, k)]
    /\ UNCHANGED <<wire, srvRead, inbox, serverVars>>

\* The request frame of an invocation.
RequestFrame(k) == <<Num(0), Str(k.method), Num(k.cbID)>> \o k.args

\* Client.invoke after its await.  A rejected openPromise makes the await
\* throw.  Otherwise the executor sends the frame and stores the record;
\* socket.send on a socket that is not open either throws (the executor
\* then rejects the promise and stores nothing) or drops the text silently,
\* depending on the ws build.
ResumeInvoke(c, k, sendThrows) ==
    IF c.openPromise = "rejected"
    THEN [c |-> Settle(c, k.cbID, Rejected(ConnectError)), out |-> <<>>]
    ELSE IF c.readyState = "open"
    THEN [c   |-> [c EXCEPT !.outstandingRequests = MapSet(@, k.cbID)],
          out |-> <<encodeMsg(RequestFrame(k))>>]
    ELSE IF sendThrows
    THEN [c |-> Settle(c, k.cbID, Rejected(NotOpenError)), out |-> <<>>]
    ELSE [c   |-> [c EXCEPT !.outstandingRequests = MapSet(@, k.cbID)],
          out |-> <<>>]

\* Client.close up to its await.
CloseContinuation == [op |-> "close", method |-> "", cbID |-> -1, args |-> <<>>]

ClientClose ==
    /\ client.closePromise = "none"
    /\ client' = [client EXCEPT
          !.closePromise = "awaiting",
          !.awaiting   = IF client.openPromise = "pending"
                         THEN Append(@, CloseContinuation) ELSE @,
          !.microtasks = IF client.openPromise = "pending"
                         THEN @ ELSE Append(@, CloseContinuation)]
    /\ UNCHANGED <<wire, srvRead, inbox, serverVars, calledIn>>

\* Client.close after its await: a rejected openPromise makes the await
\* throw; otherwise socket.close() starts the closing handshake and the
\* resolver is registered for the next 'close'.
ResumeClose(c) ==
    IF c.openPromise = "rejected"
    THEN [c |-> [c EXCEPT !.closePromise = "rejected"], out |-> <<>>]
    ELSE [c   |-> [c EXCEPT !.closePromise = "listening",
                            !.readyState = IF @ = "open" THEN "closing" ELSE @],
          out |-> <<>>]

\* Waiting continuations resumed newest first.
NextMicrotaskLast(q) == [k |-> q[Len(q)], rest |-> SubSeq(q, 1, Len(q) - 1)]

\* Which waiting continuation runs next: they run in the order they were queued.
NextMicrotask(q) == [k |-> Head(q), rest |-> Tail(q)]

RunMicrotask ==
    /\ client.microtasks # <<>>
    /\ \E sendThrows \in BOOLEAN :
         LET m == NextMicrotask(client.microtasks)
             c == [client EXCEPT !.microtasks = m.rest]
             r == IF m.k.op = "close" THEN ResumeClose(c)
                  ELSE ResumeInvoke(c, m.k, sendThrows)
         IN /\ (\/ client.openPromise = "rejected"
                 \/ client.readyState = "open"
                 \/ m.k.op = "close") => sendThrows
            /\ client' = r.c
            /\ wire' = wire \o r.out
    /\ UNCHANGED <<srvRead, inbox, serverVars, calledIn>>

\* Client._onMessage.
ClientOnMessage(c, data) ==
    LET msg == decodeMsg(data)
    IN IF ~IsArray(data) \/ msg = <<>> THEN c
       ELSE IF msg[1] = Num(0) \/ msg[1] = Num(1)
            THEN emit(c, <<"response", msg[2], msg[1] = Num(0), msg[3]>>)
       ELSE IF msg[1] = Num(2)
            THEN emit(c, <<"publish">> \o Tail(msg))
       ELSE c

SocketMessage ==
    /\ client.readyState \in {"open", "closing"}
    /\ client.microtasks = <<>>
    /\ inbox # <<>>
    /\ client' = Return(ClientOnMessage(client, Head(inbox)))
    /\ inbox' = Tail(inbox)
    /\ UNCHANGED <<wire, srvRead, serverVars, calledIn>>

\* The transport's 'message' with a response frame that answers no request
\* the peer was sent, or answers one a second time: whatever is connected at
\* the other end may send it.
UnsolicitedFrames ==
    {<<Num(t), Num(id), Num(20)>> : t \in {0, 1}, id \in 0..(MaxInvoke - 1)}

SocketMessageUnsolicited(frame) ==
    /\ client.readyState \in {"open", "closing"}
    /\ client.microtasks = <<>>
    /\ client.unsolicited < MaxUnsolicited
    /\ client' = Return(ClientOnMessage([client EXCEPT !.unsolicited = @ + 1],
                                        encodeMsg(frame)))
    /\ UNCHANGED <<wire, srvRead, inbox, serverVars, calledIn>>

\* Client._onClose: one 'response' per key of the live Map, then 'close'.
\* An exception thrown by a listener during one of the emits ends it.
RECURSIVE CloseLoop(_, _)
CloseLoop(c, keys) ==
    IF keys = <<>> \/ c.thrown THEN c
    ELSE IF ~MapHas(c.outstandingRequests, Head(keys)) THEN CloseLoop(c, Tail(keys))
    ELSE CloseLoop(emit(c, <<"response", Num(Head(keys)), TRUE, ConnectionClosed>>),
                   Tail(keys))

\* An _onClose that announces the close before it answers the pending
\* invocations.
ClientOnCloseAnnouncedFirst(c) ==
    LET c1 == emit(c, <<"close">>)
    IN CloseLoop(c1, c1.outstandingRequests)

ClientOnClose(c) ==
    LET c1 == CloseLoop(c, c.outstandingRequests)
    IN IF c1.thrown THEN c1 ELSE emit(c1, <<"close">>)

SocketClose ==
    /\ client.readyState \in {"open", "closing"}
    /\ client.microtasks = <<>>
    /\ client' = Return(ClientOnClose([client EXCEPT !.readyState = "closed"]))
    /\ UNCHANGED <<wire, srvRead, inbox, serverVars, calledIn>>

\* The callback HANDLENEXT passed to setImmediate.
Immediate ==
    /\ client.immediates > 0
    /\ client.microtasks = <<>>
    /\ client' = Return(HANDLENEXT([client EXCEPT !.immediates = @ - 1,
                                                  !.HANDLING   = FALSE]))
    /\ UNCHANGED <<wire, srvRead, inbox, serverVars, calledIn>>

\* An asynchronous user listener finishes in a later turn.
ListenerResume ==
    /\ client.busy > 0
    /\ client.microtasks = <<>>
    /\ client' = [client EXCEPT !.busy = @ - 1]
    /\ UNCHANGED <<wire, srvRead, inbox, serverVars, calledIn>>

\* ------------------------------------------------------------- Server
\* Server._send: client.send(encodeMsg(msg)).  `net` holds what was passed to
\* send and what is in flight to the Client; a text handed to a connection
\* that is no longer live is not delivered.
ServerSend(net, conn, msg) ==
    IF conn \in broken
    THEN \* client.send threw: the catch emits 'clienterror'
         [net EXCEPT !.clienterror[conn] = Append(@, SendError)]
    ELSE [net EXCEPT
            !.sent[conn] = Append(@, encodeMsg(msg)),
            !.inbox = IF conn = ClientConn /\ conn \in clients
                      THEN Append(@, encodeMsg(msg)) ELSE @ ]

Net == [sent |-> sent, inbox |-> inbox, clienterror |-> clienterror]

\* resolve() and reject() of Server._onMessage.
ResolveFrame(cbID, result) == <<Num(0), cbID, result>>
RejectFrame(cbID, error)   == <<Num(1), cbID, NormalizeError(error)>>

\* What a handler call did: how it ended and with what.
NotCalled == [call |-> "none", outcome |-> "none", value |-> JUndefined]
Call(how, outcome, v) == [call |-> how, outcome |-> outcome, value |-> v]

\* The results a registered handler may produce: a value returned at once
\* (a Promise among them) or a value thrown.
HandlerResults ==
    [kind : {"return"}, value : ReturnValues \cup {PromiseObj}]
        \cup [kind : {"throw"}, value : ThrowValues]

\* A dispatcher without the try/catch: a handler that throws gets no answer.
DispatchUncaught(method, cbID, r) ==
    IF method.type # "string" \/ method.val \notin methods
        THEN [reply |-> "frame", frame |-> RejectFrame(cbID, Str("no such method"))]
    ELSE IF r.kind = "throw" \/ r.value.class \in {"Null", "Promise"}
        THEN [reply |-> "none", frame |-> <<>>]
    ELSE [reply |-> "frame", frame |-> ResolveFrame(cbID, r.value)]

\* A dispatcher without the lookup test: calling the missing handler throws
\* a TypeError, which is answered like any thrown error.
DispatchNoLookup(method, cbID, r) ==
    IF method.type # "string" \/ method.val \notin methods \/ r.value.class = "Null"
        THEN [reply |-> "frame", frame |-> RejectFrame(cbID, ErrorOf("TypeError"))]
    ELSE IF r.kind = "throw"
        THEN [reply |-> "frame", frame |-> RejectFrame(cbID, r.value)]
    ELSE IF r.value.class = "Promise"
        THEN [reply |-> "none", frame |-> <<>>]
    ELSE [reply |-> "frame", frame |-> ResolveFrame(cbID, r.value)]

\* The frame Server._onMessage answers a request with at once, if any:
\* "none" when the handler returned a thenable.
Dispatch(method, cbID, r) ==
    IF method.type # "string" \/ method.val \notin methods
        THEN [reply |-> "frame", frame |-> RejectFrame(cbID, Str("no such method"))]
    ELSE IF r.kind = "throw"
        THEN [reply |-> "frame", frame |-> RejectFrame(cbID, r.value)]
    ELSE IF r.value.type = "object" /\ r.value.class = "Null"
        \* typeof null is 'object'; reading null.then throws a TypeError
        THEN [reply |-> "frame", frame |-> RejectFrame(cbID, ErrorOf("TypeError"))]
    ELSE IF r.value.type = "object" /\ r.value.class = "Promise"
        THEN [reply |-> "none", frame |-> <<>>]
    ELSE [reply |-> "frame", frame |-> ResolveFrame(cbID, r.value)]

\* The history entry of a request.
HandlerCall(method, r) ==
    IF method.type # "string" \/ method.val \notin methods
        THEN Call("nomethod", "none", JUndefined)
    ELSE IF r.kind = "throw" THEN Call("immediate", "reject", r.value)
    ELSE IF r.value.class = "Promise" THEN Call("deferred", "pending", JUndefined)
    ELSE Call("immediate", "resolve", r.value)

IsRequest(data) ==
    /\ IsArray(data)
    /\ decodeMsg(data) # <<>>
    /\ decodeMsg(data)[1] = Num(0)

\* Server._onMessage for the next text from the Client's connection.
ServerOnMessage(r) ==
    /\ ClientConn \in clients
    /\ srvRead < Len(wire)
    /\ srvRead' = srvRead + 1
    /\ LET data == wire[srvRead + 1]
           msg  == decodeMsg(data)
       IN IF ~IsRequest(data)
          THEN UNCHANGED <<sent, inbox, clienterror, pendingCalls, handled>>
          ELSE LET d   == Dispatch(msg[2], msg[3], r)
                   net == IF d.reply = "frame"
                          THEN ServerSend(Net, ClientConn, d.frame) ELSE Net
               IN /\ sent' = net.sent
                  /\ inbox' = net.inbox
                  /\ clienterror' = net.clienterror
                  /\ pendingCalls' = IF d.reply = "none"
                                     THEN pendingCalls \cup {msg[3]}
                                     ELSE pendingCalls
                  /\ handled' = [handled EXCEPT ![msg[3].val] = HandlerCall(msg[2], r)]
    /\ UNCHANGED <<apiLog, broken, calledIn, client, wire, methods, clients, closedConns, channels,
                   subscribedChannels, subCalls, published, nSubOps>>

\* result.then(resolve, reject): the deferred result of a handler settles.
SettleFrame(cbID, how, v) ==
    IF how = "resolve" THEN ResolveFrame(cbID, v) ELSE RejectFrame(cbID, v)

HandlerSettle(cbID, how, v) ==
    /\ cbID \in pendingCalls
    /\ pendingCalls' = pendingCalls \ {cbID}
    /\ LET net == ServerSend(Net, ClientConn, SettleFrame(cbID, how, v))
       IN sent' = net.sent /\ inbox' = net.inbox /\ clienterror' = net.clienterror
    /\ handled' = [handled EXCEPT ![cbID.val] = Call("deferred", how, v)]
    /\ UNCHANGED <<apiLog, broken, calledIn, client, wire, srvRead, methods, clients, closedConns, channels,
                   subscribedChannels, subCalls, published, nSubOps>>

\* Server.register.
Register(m) ==
    /\ m \notin methods
    /\ methods' = methods \cup {m}
    /\ UNCHANGED <<apiLog, broken, clienterror, calledIn, client, wire, srvRead, inbox, clients, closedConns, channels,
                   subscribedChannels, pendingCalls, sent, handled, subCalls,
                   published, nSubOps>>

\* The acceptor's 'connection': ws adds the socket to server.clients, then
\* Server._onConnection registers the listeners.
ServerOnConnection(conn) ==
    /\ conn \notin clients \cup closedConns
    /\ conn = ClientConn => client.readyState = "connecting"
    /\ clients' = clients \cup {conn}
    /\ UNCHANGED <<apiLog, broken, clienterror, calledIn, client, wire, srvRead, inbox, methods, closedConns, channels,
                   subscribedChannels, pendingCalls, sent, handled, subCalls,
                   published, nSubOps>>

\* The connection's 'error' on the server: the listener _onConnection
\* registered emits 'clienterror' for the connection.
ClientErrors(log) ==
    Cardinality({p \in UNION {{<<c, i>> : i \in DOMAIN log[c]} : c \in DOMAIN log} :
                    log[p[1]][p[2]] = SocketFault})

ServerOnClientError(conn) ==
    /\ conn \in clients
    /\ ClientErrors(clienterror) < MaxSocketErrors
    /\ clienterror' = [clienterror EXCEPT ![conn] = Append(@, SocketFault)]
    /\ UNCHANGED <<apiLog, broken, calledIn, client, wire, srvRead, inbox, methods,
                   clients, closedConns, channels, subscribedChannels,
                   pendingCalls, sent, handled, subCalls, published, nSubOps>>

\* -------------------------------------------------- channel registry
Registry == [channels |-> channels, subscribedChannels |-> subscribedChannels]

\* Map.get(key) || new Set(), stored under key.
WithKey(map, key) ==
    IF key \in DOMAIN map THEN map ELSE map @@ (key :> {})

\* A subscribe that takes a second call for a subscribed pair as a
\* cancellation.
subscribeToggle(reg, client_, channel) ==
    IF client_ \notin clients THEN reg
    ELSE IF channel \in DOMAIN reg.channels /\ client_ \in reg.channels[channel]
    THEN [ channels           |-> [reg.channels EXCEPT ![channel] = @ \ {client_}],
           subscribedChannels |-> [WithKey(reg.subscribedChannels, client_)
                                      EXCEPT ![client_] = @ \ {channel}] ]
    ELSE [ channels           |-> [WithKey(reg.channels, channel)
                                      EXCEPT ![channel] = @ \cup {client_}],
           subscribedChannels |-> [WithKey(reg.subscribedChannels, client_)
                                      EXCEPT ![client_] = @ \cup {channel}] ]

\* A subscribe that adds the connection to the channel's subscribers and
\* leaves the connection's own record alone.
subscribeChannelOnly(reg, client_, channel) ==
    IF client_ \notin clients THEN reg
    ELSE [ channels           |-> [WithKey(reg.channels, channel)
                                      EXCEPT ![channel] = @ \cup {client_}],
           subscribedChannels |-> WithKey(reg.subscribedChannels, client_) ]

subscribe(reg, client_, channel) ==
    IF client_ \notin clients THEN reg
    ELSE [ channels           |-> [WithKey(reg.channels, channel)
                                      EXCEPT ![channel] = @ \cup {client_}],
           subscribedChannels |-> [WithKey(reg.subscribedChannels, client_)
                                      EXCEPT ![client_] = @ \cup {channel}] ]

\* An unsubscribe that updates the connection's record only.
unsubscribeRecordOnly(reg, client_, channel) ==
    [ channels           |-> reg.channels,
      subscribedChannels |-> IF client_ \in DOMAIN reg.subscribedChannels
                             THEN [reg.subscribedChannels
                                      EXCEPT ![client_] = @ \ {channel}]
                             ELSE reg.subscribedChannels ]

unsubscribe(reg, client_, channel) ==
    [ channels           |-> IF channel \in DOMAIN reg.channels
                             THEN [reg.channels EXCEPT ![channel] = @ \ {client_}]
                             ELSE reg.channels,
      subscribedChannels |-> IF client_ \in DOMAIN reg.subscribedChannels
                             THEN [reg.subscribedChannels
                                      EXCEPT ![client_] = @ \ {channel}]
                             ELSE reg.subscribedChannels ]

\* Set.prototype.entries(): one [value, value] array per element.
ArrayOf(items) == [class |-> "Array", type |-> "object", val |-> items]
SetEntries(set) == {ArrayOf(<<v, v>>) : v \in set}

\* for (const channel of channels.entries()) this.unsubscribe(client, channel)
RECURSIVE UnsubscribeAll(_, _, _)
UnsubscribeAll(reg, client_, keys) ==
    IF keys = {} THEN reg
    ELSE LET k == CHOOSE x \in keys : TRUE
         IN UnsubscribeAll(unsubscribe(reg, client_, k), client_, keys \ {k})

\* Map.delete / WeakMap.delete.
MapRemove(map, key) == [k \in DOMAIN map \ {key} |-> map[k]]

onDisconnect(reg, client_) ==
    IF client_ \notin DOMAIN reg.subscribedChannels THEN reg
    ELSE LET r == UnsubscribeAll(reg, client_,
                                 SetEntries(reg.subscribedChannels[client_]))
         IN [r EXCEPT !.subscribedChannels = MapRemove(@, client_)]

\* The connection's 'close' on the server: ws has removed the socket from
\* server.clients; then Server._onDisconnect runs.
ServerOnDisconnect(conn) ==
    /\ conn \in clients
    /\ clients' = clients \ {conn}
    /\ closedConns' = closedConns \cup {conn}
    /\ LET r == onDisconnect(Registry, conn)
       IN /\ channels' = r.channels
          /\ subscribedChannels' = r.subscribedChannels
    /\ UNCHANGED <<apiLog, broken, clienterror, calledIn, client, wire, srvRead, inbox, methods, pendingCalls, sent,
                   handled, subCalls, published, nSubOps>>

\* Server.subscribe(conn, channel), called by the application.
Subscribe(conn, ch) ==
    /\ nSubOps < MaxSubOps
    /\ nSubOps' = nSubOps + 1
    /\ LET r == subscribe(Registry, conn, Str(ch))
       IN /\ channels' = r.channels
          /\ subscribedChannels' = r.subscribedChannels
    /\ subCalls' = IF conn \in clients
                   THEN [subCalls EXCEPT ![conn][ch] = "subscribe"] ELSE subCalls
    /\ UNCHANGED <<broken, clienterror, calledIn, client, wire, srvRead, inbox, methods, clients, closedConns,
                   pendingCalls, sent, handled, published>>

\* Server.unsubscribe(conn, channel), called by the application.
Unsubscribe(conn, ch) ==
    /\ nSubOps < MaxSubOps
    /\ nSubOps' = nSubOps + 1
    /\ LET r == unsubscribe(Registry, conn, Str(ch))
       IN /\ channels' = r.channels
          /\ subscribedChannels' = r.subscribedChannels
    /\ subCalls' = [subCalls EXCEPT ![conn][ch] = "unsubscribe"]
    /\ UNCHANGED <<apiLog, broken, clienterror, calledIn, client, wire, srvRead, inbox, methods, clients, closedConns,
                   pendingCalls, sent, handled, published>>

\* Server.publish: one _send per subscriber of the channel.
PublishFrame(channel, args) == <<Num(2), channel>> \o args

Subscribers(map, channel) ==
    IF channel \in DOMAIN map THEN map[channel] ELSE {}

RECURSIVE SendAll(_, _, _)
RECURSIVE SendAllUntilFailure(_, _, _)

\* A loop around a send that is not guarded: the first send that throws ends
\* the loop, and the remaining subscribers are skipped.
SendAllUntilFailure(net, conns, msg) ==
    IF conns = {} THEN net
    ELSE LET c == CHOOSE x \in conns : TRUE
         IN IF c \in broken THEN ServerSend(net, c, msg)
            ELSE SendAllUntilFailure(ServerSend(net, c, msg), conns \ {c}, msg)

SendAll(net, conns, msg) ==
    IF conns = {} THEN net
    ELSE LET c == CHOOSE x \in conns : TRUE
         IN SendAll(ServerSend(net, c, msg), conns \ {c}, msg)

publish(net, channel, args) ==
    SendAll(net, Subscribers(channels, channel), PublishFrame(channel, args))

Publish(ch, args) ==
    /\ Len(published) < MaxPublish
    /\ published' = Append(published, [channel |-> ch, args |-> args])
    /\ LET net == publish(Net, Str(ch), args)
       IN sent' = net.sent /\ inbox' = net.inbox /\ clienterror' = net.clienterror
    /\ UNCHANGED <<broken, calledIn, client, wire, srvRead, methods, clients, closedConns, channels,
                   subscribedChannels, pendingCalls, handled, subCalls, nSubOps>>

\* The socket of a connection leaves the OPEN state without its 'close'
\* having been handled (or stays unusable after it): from now on client.send
\* on it throws.
SocketBreak(conn) ==
    /\ conn \in (clients \cup closedConns) \ broken
    /\ broken' = broken \cup {conn}
    /\ UNCHANGED <<apiLog, clienterror, calledIn, client, wire, srvRead, inbox, methods,
                   clients, closedConns, channels, subscribedChannels,
                   pendingCalls, sent, handled, subCalls, published, nSubOps>>

\* ------------------------------------------------------ specifications
InitWith(listener) ==
    /\ client = ClientInit(listener)
    /\ wire = <<>>
    /\ srvRead = 0
    /\ inbox = <<>>
    /\ methods = {}
    /\ clients = {}
    /\ closedConns = {}
    /\ channels = <<>>
    /\ subscribedChannels = <<>>
    /\ pendingCalls = {}
    /\ sent = [c \in Conns |-> <<>>]
    /\ handled = [i \in 0..(MaxInvoke - 1) |-> NotCalled]
    /\ subCalls = [c \in Conns |-> [ch \in Channels |-> "none"]]
    /\ published = <<>>
    /\ nSubOps = 0
    /\ calledIn = <<>>
    /\ broken = {}
    /\ apiLog = [subscribed |-> [c \in Conns |-> [ch \in Channels |-> 0]],
                 publishes  |-> <<>>]
    /\ clienterror = [c \in Conns |-> <<>>]

Init == InitWith("none")

\* Remote invocation between the Client and the Server.
Next ==
    \/ \E m \in Handlers : Register(m)
    \/ ServerOnConnection(ClientConn)
    \/ SocketOpen
    \/ SocketError
    \/ \E m \in MethodNames, a \in InvokeArgs : Invoke(m, a) /\ UNCHANGED calledIn
    \/ RunMicrotask
    \/ \E r \in HandlerResults : ServerOnMessage(r)
    \/ \E id \in pendingCalls, v \in ReturnValues : HandlerSettle(id, "resolve", v)
    \/ \E id \in pendingCalls, v \in ThrowValues : HandlerSettle(id, "reject", v)
    \/ SocketMessage
    \/ Immediate
    \/ SocketClose
    \/ ServerOnDisconnect(ClientConn)

Spec == Init /\ [][Next]_vars

\* Publish/subscribe on the Server and its connections.
NextPubSub ==
    \/ \E c \in Conns : ServerOnConnection(c)
    \/ \E c \in Conns : ServerOnDisconnect(c)
    \/ \E c \in Conns, ch \in Channels : Subscribe(c, ch) /\ UNCHANGED apiLog
    \/ \E c \in Conns, ch \in Channels : Unsubscribe(c, ch)
    \/ \E ch \in Channels, a \in PublishArgs : Publish(ch, a) /\ UNCHANGED apiLog

SpecPubSub == Init /\ [][NextPubSub]_vars

\* The Client with a listener registered by the application: one that emits
\* from inside a delivery, or one that finishes in a later turn.  The Server
\* has no method registered, and publishes on the channel the Client's
\* connection is subscribed to.
InitEmitter == \E l \in {"reemit", "async"} : InitWith(l)

NextEmitter ==
    \/ ServerOnConnection(ClientConn)
    \/ SocketOpen
    \/ SocketError
    \/ \E a \in InvokeArgs : Invoke("foo", a) /\ UNCHANGED calledIn
    \/ RunMicrotask
    \/ \E r \in HandlerResults : ServerOnMessage(r)
    \/ Subscribe(ClientConn, "news") /\ UNCHANGED apiLog
    \/ Publish("news", <<Str("hi")>>) /\ UNCHANGED apiLog
    \/ SocketMessage
    \/ Immediate
    \/ ListenerResume
    \/ SocketClose

SpecEmitter == InitEmitter /\ [][NextEmitter]_vars

\* The connection's life: invocations made before it opens, while it is open
\* and after it has closed.  The handler registered for "add" returns a
\* promise; calledIn records when each invoke was called.
DeferredResult == [kind |-> "return", value |-> PromiseObj]

InvokeRecorded(method, args) ==
    /\ Invoke(method, args)
    /\ calledIn' = Append(calledIn, client.readyState)

NextLifecycle ==
    \/ Register("add")
    \/ ServerOnConnection(ClientConn)
    \/ SocketOpen
    \/ SocketError
    \/ \E a \in InvokeArgs : InvokeRecorded("add", a)
    \/ RunMicrotask
    \/ ServerOnMessage(DeferredResult)
    \/ \E id \in pendingCalls : HandlerSettle(id, "resolve", Num(10))
    \/ SocketMessage
    \/ Immediate
    \/ SocketErrorAfterOpen
    \/ SocketClose
    \/ ServerOnDisconnect(ClientConn)

SpecLifecycle == Init /\ [][NextLifecycle]_vars

\* The connection's life with Client.close(): the application may close the
\* connection at any moment, and so may the transport.
NextClose ==
    \/ Register("add")
    \/ ServerOnConnection(ClientConn)
    \/ SocketOpen
    \/ SocketError
    \/ \E a \in InvokeArgs : InvokeRecorded("add", a)
    \/ ClientClose
    \/ SocketErrorAfterOpen
    \/ RunMicrotask
    \/ ServerOnMessage(DeferredResult)
    \/ \E id \in pendingCalls : HandlerSettle(id, "resolve", Num(10))
    \/ SocketMessage
    \/ Immediate
    \/ SocketClose

InitClose == \E l \in {"none", "throws"} : InitWith(l)

SpecClose == InitClose /\ [][NextClose]_vars

\* The Client's serial queue with a listener that throws at every delivery,
\* or one that emits from inside a delivery.  The event loop runs every
\* microtask and every setImmediate callback that is scheduled.
InitQueue == \E l \in {"none", "throws", "reemit"} : InitWith(l)

NextQueue ==
    \/ ServerOnConnection(ClientConn)
    \/ SocketOpen
    \/ \E a \in InvokeArgs : Invoke("foo", a) /\ UNCHANGED calledIn
    \/ RunMicrotask
    \/ ServerOnMessage(DeferredResult)
    \/ SocketMessage
    \/ Immediate
    \/ SocketErrorAfterOpen
    \/ SocketClose

SpecQueue ==
    /\ InitQueue
    /\ [][NextQueue]_vars
    /\ WF_vars(RunMicrotask)
    /\ WF_vars(Immediate)

\* The Client connected to a peer that, besides answering the requests, sends
\* response frames nobody asked for.
NextUnsolicited ==
    \/ Register("add")
    \/ ServerOnConnection(ClientConn)
    \/ SocketOpen
    \/ \E a \in InvokeArgs : Invoke("add", a) /\ UNCHANGED calledIn
    \/ RunMicrotask
    \/ ServerOnMessage(DeferredResult)
    \/ \E id \in pendingCalls : HandlerSettle(id, "resolve", Num(10))
    \/ SocketMessage
    \/ \E f \in UnsolicitedFrames : SocketMessageUnsolicited(f)
    \/ Immediate
    \/ SocketClose

SpecUnsolicited == Init /\ [][NextUnsolicited]_vars

\* Publishing to connections some of whose sockets make send throw.
NextSendFailure ==
    \/ \E c \in Conns : ServerOnConnection(c)
    \/ \E c \in Conns : SocketBreak(c)
    \/ \E c \in Conns : ServerOnDisconnect(c)
    \/ \E c \in Conns, ch \in Channels : Subscribe(c, ch) /\ UNCHANGED apiLog
    \/ \E ch \in Channels : Publish(ch, <<Str("hi")>>) /\ UNCHANGED apiLog

SpecSendFailure == Init /\ [][NextSendFailure]_vars

\* Repeated subscribe calls and publish calls on connections that stay live.
\* apiLog counts the subscribe calls made for each live connection and
\* channel, and records what the counts were at each publish call.
SubscribeLogged(conn, ch) ==
    /\ Subscribe(conn, ch)
    /\ apiLog' = [apiLog EXCEPT !.subscribed[conn][ch] =
                                   IF conn \in clients THEN @ + 1 ELSE @]

PublishLogged(ch, args) ==
    /\ Publish(ch, args)
    /\ apiLog' = [apiLog EXCEPT !.publishes =
                     Append(@, [channel |-> ch, subscribed |-> apiLog.subscribed])]

NextResubscribe ==
    \/ \E c \in Conns : ServerOnClientError(c)
    \/ \E c \in Conns : ServerOnConnection(c)
    \/ \E c \in Conns, ch \in Channels : SubscribeLogged(c, ch)
    \/ \E ch \in Channels : PublishLogged(ch, <<Str("hi")>>)

SpecResubscribe == Init /\ [][NextResubscribe]_vars

\* ================================================================ claims
Ids == 0..(client.counter - 1)

\* The ids for which Client._onClose emitted a 'response'.
RECURSIVE CloseResponses(_)
CloseResponses(log) ==
    IF log = <<>> THEN {}
    ELSE LET e == Head(log)
         IN (IF e[1] = "response" /\ e[4] = ConnectionClosed THEN {e[2].val} ELSE {})
                \cup CloseResponses(Tail(log))

\* Nothing is left to run on the Client.
ClientIdle ==
    /\ client.microtasks = <<>>
    /\ client.QUEUE = <<>>
    /\ client.immediates = 0

\* C1: once the transport's close has reached the Client and its queue has
\* drained, every invocation that was pending at the close is settled, and
\* each one the close settled is rejected with "connection closed" (never
\* fulfilled).
C1_PendingFailOnClose ==
    (client.readyState = "closed" /\ ClientIdle) =>
        \A id \in CloseResponses(client.emitted) :
            /\ PromiseOf(client, id).state # "pending"
            /\ PromiseOf(client, id).value.class = "Error"
                   => PromiseOf(client, id) = Rejected(ConnectionClosed)

\* C2: a connection whose close the Server has observed is in no channel's
\* subscriber set and has no subscription record, so no later publish sends
\* to it.
C2_NoMembershipAfterDisconnect ==
    \A conn \in closedConns :
        /\ conn \notin DOMAIN subscribedChannels
        /\ \A ch \in DOMAIN channels : conn \notin channels[ch]

\* C10: an invoke called on a Client whose connection has already closed is
\* rejected with "connection closed": once nothing is left to run on the
\* Client, its promise is in that state.
C10_InvokeAfterCloseRejected ==
    (client.readyState = "closed" /\ ClientIdle) =>
        \A id \in Ids :
            calledIn[id + 1] = "closed"
                => PromiseOf(client, id) = Rejected(ConnectionClosed)

\* The response frames the Server passed to send for request id.
IsResponseFor(data, id) ==
    /\ data.items[1] \in {Num(0), Num(1)}
    /\ data.items[2] = Num(id)

ResponsesFor(id) ==
    {i \in DOMAIN sent[ClientConn] : IsResponseFor(sent[ClientConn][i], id)}

Answered(h) == h.outcome \in {"resolve", "reject"}

\* C3: for every request the Server received for a registered method, the
\* number of response sends carrying its id is one as soon as the handler
\* has returned a value, thrown, or its deferred result has settled, and none
\* before; it is never two.
C3_ExactlyOneResponse ==
    \A id \in DOMAIN handled :
        /\ handled[id].call = "none" => ResponsesFor(id) = {}
        /\ handled[id].outcome = "pending" => ResponsesFor(id) = {}
        /\ (handled[id].call \in {"immediate", "deferred"} /\ Answered(handled[id]))
               => Cardinality(ResponsesFor(id)) = 1

\* Two requests answered, the later one first: the first handler's deferred
\* result settled after the second handler had thrown or returned.
C3_Witness ==
    /\ handled[0].call = "deferred" /\ Answered(handled[0])
    /\ handled[1].call = "immediate" /\ handled[1].value = JNull
    /\ \E i \in ResponsesFor(1), j \in ResponsesFor(0) : i < j

\* What the caller gets for a handler outcome: the value as the response
\* frame carries it (undefined arrives as null, an Error as the plain record
\* of its name, message and stack; every other value unchanged).
Carried(h) ==
    IF h.outcome = "resolve" THEN Fulfilled(JSONValue(h.value))
    ELSE Rejected(JSONValue(NormalizeError(h.value)))

\* A promise settled by a response frame: the Client's own failures are
\* Error instances, which no frame carries.
SettledByFrame(p) == p.state # "pending" /\ p.value.class # "Error"

\* C4: with several invocations in flight whose deferred handlers settle in
\* any order, each promise of invoke that a response settles has the outcome
\* of the handler call made for its own id: fulfilled with that handler's
\* value, or rejected with that handler's payload, as the frame carries it.
C4_OwnOutcome ==
    \A id \in Ids :
        (SettledByFrame(PromiseOf(client, id)) /\ handled[id].call = "deferred")
            => /\ Answered(handled[id])
               /\ PromiseOf(client, id) = Carried(handled[id])

\* Two deferred handlers settled in reverse order with different outcomes,
\* both responses delivered.
C4_Witness ==
    /\ client.counter = 2
    /\ handled[0].call = "deferred" /\ handled[1].call = "deferred"
    /\ \E i \in ResponsesFor(1), j \in ResponsesFor(0) : i < j
    /\ PromiseOf(client, 0) = Fulfilled(Num(10))
    /\ PromiseOf(client, 1) = Rejected(Str("boom"))

\* C9: a request naming an unregistered method is answered by exactly one
\* send, the frame [1, id, "no such method"], and the promise of that invoke,
\* once a response settles it, is rejected with the string "no such method".
C9_NoSuchMethod ==
    \A id \in Ids :
        handled[id].call = "nomethod" =>
            /\ \E i \in ResponsesFor(id) :
                  /\ ResponsesFor(id) = {i}
                  /\ sent[ClientConn][i] =
                        [json |-> "array",
                         items |-> <<Num(1), Num(id), Str("no such method")>>]
            /\ SettledByFrame(PromiseOf(client, id))
                  => PromiseOf(client, id) = Rejected(Str("no such method"))

C9_Witness ==
    /\ "add" \in methods
    /\ client.counter = 2
    /\ handled[1].call = "nomethod"
    /\ PromiseOf(client, 1) = Rejected(Str("no such method"))
    /\ handled[0].call = "deferred"

\* The number of request frames the Client sent for id.
RequestsFor(id) == {i \in DOMAIN wire : wire[i].items[3] = Num(id)}
Waiting(id) ==
    \/ \E i \in DOMAIN client.awaiting : client.awaiting[i].cbID = id
    \/ \E i \in DOMAIN client.microtasks : client.microtasks[i].cbID = id

\* C8: no request frame is sent before 'open' has been delivered; an invoke
\* called while the connection was still opening has sent no frame while it
\* waits and exactly one once the connection has opened and its turn has
\* come; the frames are sent in increasing id, the order of the calls.
C8_SendOnOpenInOrder ==
    /\ wire # <<>> => (client.delivered # <<>> /\ client.delivered[1] = <<"open">>)
    /\ \A i, j \in DOMAIN wire : i < j => wire[i].items[3].val < wire[j].items[3].val
    /\ \A id \in Ids :
          calledIn[id + 1] = "connecting" =>
              Cardinality(RequestsFor(id)) =
                  IF client.openPromise = "resolved" /\ ~Waiting(id) THEN 1 ELSE 0

\* Two invokes called before the connection opened, both frames sent.
C8_Witness ==
    /\ calledIn = <<"connecting", "connecting">>
    /\ Len(wire) = 2
    /\ client.openPromise = "resolved"

\* The text of the publish frame [2, channel, ...args].
PublishText(p) ==
    [json  |-> "array",
     items |-> <<Num(2), Str(p.channel)>>
                   \o [i \in DOMAIN p.args |-> JSONValue(p.args[i])]]

\* C5: a publish(c, x) sends the frame [2, c, x] to every live connection
\* whose last call for c was a subscribe, and sends nothing to a live
\* connection whose last call for c was an unsubscribe or that never
\* subscribed to c.
C5_PublishFollowsSubscription ==
    [][ Len(published') = Len(published) + 1 =>
          LET p == published'[Len(published')]
          IN \A conn \in clients :
                sent'[conn] = IF subCalls[conn][p.channel] = "subscribe"
                              THEN Append(sent[conn], PublishText(p))
                              ELSE sent[conn] ]_vars

\* One publish reached a subscribed connection and skipped a connection that
\* had unsubscribed from the channel before it.
C5_Witness ==
    \E ch \in Channels, c \in clients, d \in clients :
        /\ published # <<>>
        /\ subCalls[c][ch] = "subscribe" /\ Len(sent[c]) = 1
        /\ subCalls[d][ch] = "unsubscribe" /\ sent[d] = <<>>
        /\ d \in DOMAIN subscribedChannels

\* C6: the Client's signals are delivered in the order of their emit calls,
\* one at a time: what has been delivered followed by what is queued is what
\* was emitted, no delivery begins while the listeners of another are
\* running, and an emit made inside a listener is queued.
C6_SerialInOrder ==
    /\ client.emitted = client.delivered \o client.QUEUE
    /\ ~client.nested
    /\ client.active = 0

\* A listener emitted from inside a delivery; its signal was queued and
\* delivered later, behind the others.
C6_Witness ==
    /\ client.userListener = "reemit"
    /\ client.userEmits > 0
    /\ \E i \in DOMAIN client.delivered :
          i >= 2 /\ client.delivered[i] = <<"user">>
    /\ client.QUEUE # <<>>

\* C7 as stated: no signal is delivered while a listener that yielded to the
\* scheduler has not finished.
C7_NoDeliveryWhileListenerUnfinished == ~client.overlapped

\* C7 amended: at most one signal is delivered per scheduler turn, and after
\* a delivery the next one waits for the setImmediate callback that delivery
\* scheduled: a delivery is made either by an emit that found the flag clear
\* or by that callback.
C7_NextDeliveryAfterImmediate ==
    [][ LET n == Len(client'.delivered) - Len(client.delivered)
        IN /\ n <= 1
           /\ n = 1 => \/ ~client.HANDLING
                       \/ /\ client.immediates > 0
                          /\ client'.immediates = client.immediates ]_vars

\* A signal was delivered while asynchronous listeners of earlier signals
\* were still unfinished.
C7_Witness ==
    /\ client.userListener = "async"
    /\ client.overlapped
    /\ client.busy >= 2

\* C11: in a publish(c, ...args), every subscriber of c whose send does not
\* throw is sent the frame [2, c, ...args] exactly once, whichever other
\* subscribers' sends throw; for every subscriber whose send throws one
\* 'clienterror' is emitted for that connection and nothing is sent; and the
\* call returns (it is recorded as made).
C11_PublishSurvivesSendFailure ==
    [][ Len(published') = Len(published) + 1 =>
          LET p == published'[Len(published')]
          IN \A conn \in Conns :
                IF conn \notin Subscribers(channels, Str(p.channel))
                THEN sent'[conn] = sent[conn] /\ clienterror'[conn] = clienterror[conn]
                ELSE IF conn \in broken
                THEN /\ sent'[conn] = sent[conn]
                     /\ clienterror'[conn] = Append(clienterror[conn], SendError)
                ELSE /\ sent'[conn] = Append(sent[conn], PublishText(p))
                     /\ clienterror'[conn] = clienterror[conn] ]_vars

\* A publish to two live subscribers: the send to one threw and was reported,
\* the other was sent the frame.
C11_Witness ==
    \E ch \in Channels, c \in clients, d \in clients :
        /\ published # <<>> /\ published[1].channel = ch
        /\ {c, d} \subseteq Subscribers(channels, Str(ch))
        /\ c \in broken /\ clienterror[c] = <<SendError>> /\ sent[c] = <<>>
        /\ d \notin broken /\ sent[d] = <<PublishText(published[1])>>

\* The pairs for which a count of subscribe calls is at least one.
SubscribedIn(counts) ==
    {q \in Conns \X Channels : counts[q[1]][q[2]] >= 1}

\* The registry after one subscribe call for each pair of a set.
RECURSIVE SubscribeEach(_, _)
SubscribeEach(reg, pairs) ==
    IF pairs = {} THEN reg
    ELSE LET q == CHOOSE x \in pairs : TRUE
         IN SubscribeEach(subscribe(reg, q[1], Str(q[2])), pairs \ {q})

\* The publish frames for channel ch sent to conn.
PublishedTo(conn, ch) ==
    {k \in DOMAIN sent[conn] : /\ sent[conn][k].items[1] = Num(2)
                               /\ sent[conn][k].items[2] = Str(ch)}

\* C12: however many times subscribe was called for a live connection and a
\* channel (once or more), the registry is the one that a single call for
\* each such pair produces, and every publish on the channel made after the
\* first of these calls has sent exactly one frame to the connection.
C12_SubscribeIdempotent ==
    /\ Registry = SubscribeEach([channels |-> <<>>, subscribedChannels |-> <<>>],
                                SubscribedIn(apiLog.subscribed))
    /\ \A conn \in Conns, ch \in Channels :
          Cardinality(PublishedTo(conn, ch)) =
              Cardinality({i \in DOMAIN apiLog.publishes :
                              /\ apiLog.publishes[i].channel = ch
                              /\ apiLog.publishes[i].subscribed[conn][ch] >= 1})

\* subscribe was called twice for the same live connection and channel, then
\* publish once: one frame was sent to the connection.
C12_Witness ==
    \E conn \in clients, ch \in Channels :
        /\ apiLog.publishes # <<>>
        /\ apiLog.publishes[1].channel = ch
        /\ apiLog.publishes[1].subscribed[conn][ch] >= 2
        /\ Len(sent[conn]) = 1

\* C13: whenever a registered handler has returned at once a value of a kind
\* the protocol carries (null among them), the response sent for the request
\* is the success frame [0, requestId, v].
C13_ImmediateValueSucceeds ==
    \A id \in DOMAIN handled :
        (/\ handled[id].call = "immediate"
         /\ handled[id].outcome = "resolve"
         /\ handled[id].value.type # "undefined")
            => \E i \in ResponsesFor(id) :
                  sent[ClientConn][i].items = <<Num(0), Num(id), handled[id].value>>

\* The ids of the invocations that have not passed their await yet.
WaitingIds ==
    {k.cbID : k \in {client.awaiting[i] : i \in DOMAIN client.awaiting}
                       \cup {client.microtasks[i] : i \in DOMAIN client.microtasks}}
        \ {CloseContinuation.cbID}

\* Part of C14: in every state the ids in use are distinct and below the
\* counter.
C14_IdsDistinct ==
    /\ Len(client.promises) = client.counter
    /\ Cardinality(WaitingIds) = Len(client.awaiting) + Len(client.microtasks)
    /\ WaitingIds \subseteq Ids
    /\ \A i, j \in DOMAIN wire : i # j => wire[i].items[3] # wire[j].items[3]
    /\ \A i, j \in DOMAIN client.outstandingRequests :
          i # j => client.outstandingRequests[i] # client.outstandingRequests[j]
    /\ \A i \in DOMAIN client.outstandingRequests :
          LET id == client.outstandingRequests[i]
          IN /\ id \in Ids
             /\ id \notin WaitingIds
             /\ PromiseOf(client, id).state = "pending"

\* Part of C14: a step advances the counter by at most one, and the id it
\* hands out is in use nowhere else.
C14_IdsAdvance ==
    /\ client'.counter \in {client.counter, client.counter + 1}
    /\ client'.counter = client.counter + 1 =>
          /\ WaitingIds' = WaitingIds \cup {client.counter}
          /\ client.counter \notin WaitingIds
          /\ ~MapHas(client.outstandingRequests, client.counter)

\* C14: the counter starts at 0 and every invoke call takes its value as the
\* id and advances it by one, so no id is taken twice; the keys of
\* outstandingRequests are pairwise distinct, each below the counter, and each
\* is the id of one invocation that has passed its await and whose promise is
\* still pending; no two request frames carry the same id.
C14_RequestIdsUnique ==
    /\ client.counter = 0
    /\ []C14_IdsDistinct
    /\ [][C14_IdsAdvance]_vars

\* Two invocations in flight at once, under the ids 0 and 1.
C14_Witness ==
    /\ client.counter = 2
    /\ client.outstandingRequests = <<0, 1>>
    /\ Len(wire) = 2

\* The signal a step delivered, if it delivered one.
Delivers == Len(client'.delivered) = Len(client.delivered) + 1
DeliveredSignal == client'.delivered[Len(client'.delivered)]

\* A 'response' signal that Client._onMessage emitted for a frame (the
\* payload of the one Client._onClose emits is an Error instance).
FromFrame(e) == e[1] = "response" /\ e[4].class # "Error"

\* The response frame a 'response' signal stands for.
FrameOf(e) == <<IF e[3] THEN Num(0) ELSE Num(1), e[2], e[4]>>

\* C15: when the 'response' signal of a received response frame is delivered
\* and its id has a record in outstandingRequests, the record is removed and
\* the promise of that invoke is fulfilled with the carried value if the
\* frame is [0, id, value], rejected with the carried payload if it is
\* [1, id, payload]; the frame is one the Server sent.
C15_ResponseSettlesRecord ==
    [][ Delivers =>
          LET e == DeliveredSignal
          IN (/\ FromFrame(e)
              /\ e[2].type = "number"
              /\ MapHas(client.outstandingRequests, e[2].val))
                 => /\ ~MapHas(client'.outstandingRequests, e[2].val)
                    /\ \E i \in DOMAIN sent[ClientConn] :
                          sent[ClientConn][i].items = FrameOf(e)
                    /\ FrameOf(e)[1] = Num(0)
                          => PromiseOf(client', e[2].val) = Fulfilled(e[4])
                    /\ FrameOf(e)[1] = Num(1)
                          => PromiseOf(client', e[2].val) = Rejected(e[4]) ]_vars

\* A failure response settled the first invocation while the second one is
\* still waiting for its response; then a success response settled that one.
C15_Witness ==
    /\ client.counter = 2
    /\ PromiseOf(client, 0) = Rejected(PlainOf("bad"))
    /\ PromiseOf(client, 1) = Fulfilled(Num(20))
    /\ client.outstandingRequests = <<>>
    /\ client.readyState = "open"

\* C16: when the 'response' signal of a received response frame is delivered
\* and its id has no record in outstandingRequests (the invocation was
\* settled before, or no invocation has that id), no promise changes,
\* outstandingRequests is unchanged and no 'error' signal is emitted.
C16_UnknownResponseDiscarded ==
    [][ Delivers =>
          LET e == DeliveredSignal
          IN (/\ FromFrame(e)
              /\ ~(e[2].type = "number" /\ MapHas(client.outstandingRequests, e[2].val)))
                 => /\ client'.promises = client.promises
                    /\ client'.outstandingRequests = client.outstandingRequests
                    /\ \A i \in DOMAIN client'.emitted :
                          i > Len(client.emitted) => client'.emitted[i][1] # "error" ]_vars

\* A failure response nobody asked for was delivered for id 0, and the
\* invocation with that id is fulfilled with its handler's value all the
\* same, while a later invocation is still pending.
C16_Witness ==
    /\ client.unsolicited > 0
    /\ \E i \in DOMAIN client.delivered :
          client.delivered[i] = <<"response", Num(0), FALSE, Num(20)>>
    /\ client.counter = 2
    /\ PromiseOf(client, 0) = Fulfilled(Num(10))
    /\ client.outstandingRequests = <<1>>

\* C17: for every live connection conn and every channel c, conn is in the
\* subscriber set of c exactly when c is in the subscription set of conn,
\* after any sequence of subscribe and unsubscribe calls.
C17_IndexesConsistent ==
    \A conn \in clients, ch \in Channels :
        conn \in Subscribers(channels, Str(ch))
            <=> Str(ch) \in Subscribers(subscribedChannels, conn)

\* A live connection that subscribed to both channels and then unsubscribed
\* from one of them.
C17_Witness ==
    \E conn \in clients :
        /\ subCalls[conn]["news"] = "subscribe"
        /\ subCalls[conn]["misc"] = "unsubscribe"
        /\ Str("misc") \in DOMAIN channels
        /\ subscribedChannels[conn] = {Str("news")}
        /\ nSubOps = 3

\* The 'response' signal Client._onClose emits for id.
CloseResponse(id) == <<"response", Num(id), TRUE, ConnectionClosed>>

\* What the 'response' listener settles a promise with for a signal.
OutcomeOf(e) == IF e[3] THEN Fulfilled(e[4]) ELSE Rejected(e[4])

WasDelivered(e) == \E k \in DOMAIN client.delivered : client.delivered[k] = e

\* C18: if the 'response' signal of a genuine response frame for id was
\* emitted before the transport's close and was still queued when
\* Client._onClose emitted its own 'response' for id, then from the delivery
\* of the genuine signal on the record is gone and the promise has the
\* genuine response's outcome; the delivery of the close-time signal
\* changes neither.
C18_QueuedResponseWins ==
    \A id \in Ids : \A a, b \in DOMAIN client.emitted :
        (/\ a < b
         /\ FromFrame(client.emitted[a]) /\ client.emitted[a][2] = Num(id)
         /\ client.emitted[b] = CloseResponse(id))
            => /\ ~WasDelivered(client.emitted[a])
                    => /\ ~WasDelivered(CloseResponse(id))
                       /\ PromiseOf(client, id).state = "pending"
               /\ WasDelivered(client.emitted[a])
                    => /\ PromiseOf(client, id) = OutcomeOf(client.emitted[a])
                       /\ ~MapHas(client.outstandingRequests, id)

\* The genuine response for id 0 was queued when the connection closed; both
\* it and the close-time response for id 0 have been delivered since.
C18_Witness ==
    /\ client.readyState = "closed"
    /\ ClientIdle
    /\ \E a, b \in DOMAIN client.emitted :
          /\ a < b
          /\ client.emitted[a] = <<"response", Num(0), TRUE, Num(10)>>
          /\ client.emitted[b] = CloseResponse(0)
    /\ WasDelivered(CloseResponse(0))
    /\ PromiseOf(client, 0) = Fulfilled(Num(10))

\* C19: once the 'close' signal has been delivered, every invocation made
\* before the transport's close is settled and has no record in
\* outstandingRequests; and the promise of Client.close() is resolved only
\* by that delivery.
C19_CloseAfterPendingSettled ==
    /\ WasDelivered(<<"close">>) =>
          \A id \in Ids :
              calledIn[id + 1] # "closed"
                  => /\ ~MapHas(client.outstandingRequests, id)
                     /\ PromiseOf(client, id).state # "pending"
    /\ client.closePromise = "resolved" => WasDelivered(<<"close">>)

\* Client.close() has resolved; of two invocations made while the connection
\* was open one had been answered and the other was pending at the close.
C19_Witness ==
    /\ client.closePromise = "resolved"
    /\ calledIn = <<"open", "open">>
    /\ PromiseOf(client, 0) = Fulfilled(Num(10))
    /\ 1 \in CloseResponses(client.emitted)
    /\ 0 \notin CloseResponses(client.emitted)

\* The most signals one Client emits: 'open', a genuine and a close-time
\* 'response' per invocation, 'close', the socket's 'error' events and the
\* listener's own emits.
QueueLength == 2 * MaxInvoke + MaxUserEmit + MaxSocketErrors + 2

\* C20: whenever the handling flag is set a setImmediate callback is
\* scheduled; every signal passed to emit is delivered or queued, once, in
\* emit order; and if every scheduled callback is eventually run, the n-th
\* signal emitted is eventually the n-th signal delivered, also when the
\* listeners of earlier signals threw.
C20_QueueNeverStalls ==
    /\ [](client.HANDLING => client.immediates > 0)
    /\ [](client.emitted = client.delivered \o client.QUEUE)
    /\ \A n \in 1..QueueLength :
          (Len(client.emitted) >= n) ~> (Len(client.delivered) >= n)

\* Signals emitted while earlier ones were being handled were all delivered
\* although the listener threw at every delivery; the exception thrown
\* during Client._onClose ended its loop early.
C20_Witness ==
    /\ client.userListener = "throws"
    /\ client.readyState = "closed"
    /\ client.outstandingRequests # <<>>
    /\ Len(client.delivered) >= 3
    /\ client.delivered = client.emitted
    /\ ~client.HANDLING

====
